---- MODULE Spec2Model ----
(***************************************************************************)
(* A model of diabetes_auto_update.py: the crawl / dedup / download        *)
(* pipeline, its persistent files (seen-state, index, event log, PDFs)     *)
(* and the notification step, over repeated runs of the script.            *)
(***************************************************************************)
EXTENDS Integers, Sequences, FiniteSets, TLC

\* Number of times the script is run one after the other.
MaxRuns == 2
\* Number of failures (network, filesystem, SMTP) the environment injects
\* over a whole behaviour.
MaxFaults == 2

VARIABLES
    pc,             \* position of the process in __main__ / the current scraper
    src,            \* index in Scrapers of the scraper being run
    seeds,          \* pages the current scraper has still to fetch
    all_links,      \* the current scraper's all_links / all_pdfs set
    links,          \* what is left of sorted(all_links) to hand to download_file
    seen_urls,      \* global seen_urls
    new_downloads,  \* global new_downloads
    debug_log,      \* guidelines/debug_log.txt, one tag per line
    pdf_index,      \* guidelines/pdf_index.csv
    seen_file,      \* guidelines/downloaded_pdfs.json
    files,          \* the files under guidelines/<source>/
    dirs,           \* the directories under guidelines/
    net_gets,       \* binary GET requests issued by this process
    call,           \* the last download_file call and what the remote answered
    smtp,           \* what send_email_if_new did in this process
    environ,        \* os.environ as send_email_if_new read it
    exit_status,    \* "running", "0", or "1" (uncaught exception)
    run,            \* how many times the script has been started
    faults,         \* failures injected so far
    world,          \* which remote content the sites serve
    flags,          \* this process: how load and save ended, any failure seen
    hist            \* the previous process: its final seen_urls and flags

vars == <<pc, src, seeds, all_links, links, seen_urls, new_downloads, debug_log,
          pdf_index, seen_file, files, dirs, net_gets, call, smtp, environ,
          exit_status, run, faults, world, flags, hist>>

----------------------------------------------------------------------------
(* URLs.  A URL is its directory, the parts of its last path segment, its  *)
(* query, and two facts about its text: whether "diabet" occurs in it and  *)
(* whether urljoin() accepts it.                                           *)

\* https://x.org/a/report.pdf
U1 == [dir |-> "/a", last |-> <<"report", ".pdf">>, query |-> "", diabet |-> FALSE, malformed |-> FALSE]
\* https://x.org/b/report.pdf
U2 == [dir |-> "/b", last |-> <<"report", ".pdf">>, query |-> "", diabet |-> FALSE, malformed |-> FALSE]
\* https://x.org/docs/guide?format=.pdf
U3 == [dir |-> "/docs", last |-> <<"guide">>, query |-> "format=.pdf", diabet |-> FALSE, malformed |-> FALSE]
\* https://x.org/news/diabetes.html
UHtml == [dir |-> "/news", last |-> <<"diabetes", ".html">>, query |-> "", diabet |-> TRUE, malformed |-> FALSE]
\* http://[diabetes.pdf  (urljoin raises ValueError: Invalid IPv6 URL)
UBad == [dir |-> "", last |-> <<"[diabetes", ".pdf">>, query |-> "", diabet |-> TRUE, malformed |-> TRUE]

\* The URLs above in the order Python's sorted() puts their strings.
SortedUrls == <<UBad, U1, U2, U3, UHtml>>

Lower(part) == IF part = ".PDF" THEN ".pdf" ELSE part

\* ".pdf" in href.lower()
PdfInHref(u) ==
    \/ \E i \in 1..Len(u.last) : Lower(u.last[i]) = ".pdf"
    \/ u.query = "format=.pdf"

safe_filename(url) ==
    LET name == IF url.last = <<>> THEN <<"file", ".pdf">> ELSE url.last
    IN  IF Lower(name[Len(name)]) = ".pdf" THEN name ELSE Append(name, ".pdf")

sorted(S) == SelectSeq(SortedUrls, LAMBDA u : u \in S)

Range(q) == {q[i] : i \in 1..Len(q)}

----------------------------------------------------------------------------
(* Configuration of the script.                                            *)

BASE_DIR == "guidelines"
RSS_FEEDS == <<>>
Scrapers == <<"ADA", "WHO", "IDF", "NICE", "MOHFW", "PubMed", "RSS">>
HtmlScrapers == {"ADA", "WHO", "IDF", "MOHFW"}

seed_urls(source) ==
    CASE source = "ADA"   -> <<"diabetesjournals.org/care/issue", "diabetesjournals.org/care">>
      [] source = "WHO"   -> <<"who.int/health-topics/diabetes", "who.int/publications">>
      [] source = "IDF"   -> <<"idf.org/our-activities", "idf.org/resources">>
      [] source = "MOHFW" -> <<"main.mohfw.gov.in">>
      [] OTHER            -> <<>>

require_diabetes_word(source) == source \in {"WHO", "IDF", "MOHFW"}

----------------------------------------------------------------------------
(* The remote sites.  An anchor is its href and whether its text holds     *)
(* "diabet".  World 2 differs from world 1 in one anchor of                *)
(* idf.org/resources; world 3 in one link that is dead.                    *)

Worlds == {1, 2, 3}

\* The links the remote answers with a non-200 status whenever asked.
Dead(w) == IF w = 3 THEN {U3} ELSE {}

Anchor(u, t) == [href |-> u, text_diabet |-> t]

Page(w, url) ==
    CASE url = "diabetesjournals.org/care/issue" -> {Anchor(U1, FALSE), Anchor(U2, FALSE)}
      [] url = "diabetesjournals.org/care"       -> {Anchor(U1, FALSE), Anchor(UHtml, TRUE)}
      [] url = "who.int/health-topics/diabetes"  -> {Anchor(U1, TRUE), Anchor(U2, FALSE), Anchor(UHtml, TRUE)}
      [] url = "who.int/publications"            -> {}
      [] url = "idf.org/our-activities"          -> {}
      [] url = "idf.org/resources"               -> IF w = 2 THEN {Anchor(UBad, TRUE)} ELSE {}
      [] url = "nice.org.uk/guidance/ng28"       -> {Anchor(U3, FALSE)}
      [] url = "main.mohfw.gov.in"               -> {Anchor(U3, TRUE), Anchor(U1, FALSE)}
      [] OTHER                                   -> {}

\* The anchors of the NICE search page: the page each leads to, whether the
\* href holds "/guidance/", whether the text holds "diabet".
NiceSearch(w) ==
    { [page |-> "nice.org.uk/guidance/ng28", guidance |-> TRUE, text_diabet |-> TRUE],
      [page |-> "nice.org.uk/guidance/ng17", guidance |-> TRUE, text_diabet |-> FALSE],
      [page |-> "nice.org.uk/about", guidance |-> FALSE, text_diabet |-> TRUE] }

----------------------------------------------------------------------------
(* Logging and index helpers.                                              *)

log(lg, msgs) == lg \o msgs

HEADER == [header |-> <<"source", "filename", "url", "download_date">>]

NoIndex == [exists |-> FALSE, rows |-> <<>>]

\* init_index with the existence test lost: the header is rewritten each run.
init_index_always(idx) == [exists |-> TRUE, rows |-> <<HEADER>>]

\* init_logs, its effect on pdf_index.csv: written with the header only when
\* the file does not exist.
init_index(idx) ==
    IF ~idx.exists THEN [exists |-> TRUE, rows |-> <<HEADER>>] ELSE idx

\* add_pdf_index: one row appended (open(..., "a") creates a missing file).
add_pdf_index(idx, source, filename, url, date) ==
    [exists |-> TRUE,
     rows |-> Append(idx.rows, [source |-> source, filename |-> filename,
                                url |-> url, download_date |-> date])]

NoSeenFile == [state |-> "absent", urls |-> <<>>]

\* load_seen that never reads the file.
load_seen_empty(file, readable) == {}

\* load_seen_urls: set(json.load(f)) of a readable, well-formed file; the
\* empty set when the file is absent or the read or the parse raises.
load_seen(file, readable) ==
    IF file.state = "valid" /\ readable THEN Range(file.urls) ELSE {}

\* save_seen_urls, its effect on downloaded_pdfs.json: "ok" writes the sorted
\* list; "open_error" leaves the file as it is; "dump_error" leaves the file
\* open(..., "w") truncated, which json.load rejects.
save_seen(file, seen, result) ==
    CASE result = "ok"         -> [state |-> "valid", urls |-> sorted(seen)]
      [] result = "dump_error" -> [state |-> "corrupt", urls |-> <<>>]
      [] OTHER                 -> file

----------------------------------------------------------------------------
(* HTTP and parsing helpers.                                               *)

ensure_dir(ds, path) == ds \cup {path}

\* get_soup: its log lines for an outcome "ok", "status" (non-200) or
\* "error" (requests or the parser raised).
get_soup_log(outcome) ==
    CASE outcome = "ok"     -> <<"FETCH">>
      [] outcome = "status" -> <<"FETCH", "WARN_status">>
      [] OTHER              -> <<"FETCH", "ERROR_fetch">>

\* find_pdf_links: the anchors it keeps.  The hrefs of the modelled pages are
\* absolute, and urljoin returns an absolute href as it is.
kept_anchors(page, require) ==
    {a \in page : /\ (require => (a.href.diabet \/ a.text_diabet))
                  /\ PdfInHref(a.href)}

\* urljoin raises on a kept anchor: nothing in find_pdf_links or its callers
\* catches it.
find_pdf_links_raises(page, require) ==
    \E a \in kept_anchors(page, require) : a.href.malformed

find_pdf_links(page, require) == {a.href : a \in kept_anchors(page, require)}

exists(fs, folder, name) == \E f \in fs : f.folder = folder /\ f.name = name

\* open(local_path, "wb") and f.write: the file is created or replaced.
write_file(fs, folder, name, url, complete) ==
    {f \in fs : ~(f.folder = folder /\ f.name = name)}
        \cup {[folder |-> folder, name |-> name, from |-> url, complete |-> complete]}

\* Decide with the seen-set test lost.
Decide_no_seen_check(url, folder, seen, fs) ==
    IF exists(fs, folder, safe_filename(url)) THEN "adopt" ELSE "fetch"

\* Decide with the existing-file test lost.
Decide_no_exists_check(url, folder, seen, fs) ==
    IF url \in seen THEN "skip" ELSE "fetch"

\* Decide with both early returns lost.
Decide_always_fetch(url, folder, seen, fs) == "fetch"

\* download_file, its decision sequence before any request.
Decide(url, folder, seen, fs) ==
    IF url \in seen THEN "skip"
    ELSE IF exists(fs, folder, safe_filename(url)) THEN "adopt"
    ELSE "fetch"

\* What the environment can answer to the binary GET and the writes after it:
\* "200" all went well; "status" a non-200 answer; "error" requests raised;
\* "write_error" 200 but open(local_path, "wb") raised; "write_partial" 200 but
\* f.write raised after the file was created; "index_error" 200 and the file
\* saved, but add_pdf_index raised.
FetchResponses == {"200", "status", "error", "write_error", "write_partial", "index_error"}

\* Responses after which lines 171-176 have run.
Marked(resp) == resp \in {"200", "index_error"}

\* seen_after with the URL marked before the status is looked at.
seen_after_eager(seen, url, d, resp) ==
    IF d \in {"adopt", "fetch"} THEN seen \cup {url} ELSE seen

seen_after(seen, url, d, resp) ==
    IF d = "adopt" \/ (d = "fetch" /\ Marked(resp)) THEN seen \cup {url} ELSE seen

new_after(new, source, url, d, resp) ==
    IF d = "fetch" /\ Marked(resp)
    THEN Append(new, [source |-> source, filename |-> safe_filename(url), url |-> url])
    ELSE new

index_after(idx, source, url, date, d, resp) ==
    IF d = "fetch" /\ resp = "200"
    THEN add_pdf_index(idx, source, safe_filename(url), url, date)
    ELSE idx

files_after(fs, folder, url, d, resp) ==
    IF d = "fetch" /\ Marked(resp) THEN write_file(fs, folder, safe_filename(url), url, TRUE)
    ELSE IF d = "fetch" /\ resp = "write_partial"
         THEN write_file(fs, folder, safe_filename(url), url, FALSE)
    ELSE fs

gets_after(gets, source, url, d) ==
    IF d = "fetch" THEN gets \cup {[source |-> source, url |-> url]} ELSE gets

download_log(d, resp) ==
    CASE d = "skip"  -> <<"SKIP_known">>
      [] d = "adopt" -> <<"SKIP_untracked">>
      [] resp = "200" -> <<"DOWNLOAD", "SAVED">>
      [] resp = "status" -> <<"DOWNLOAD", "WARN_status">>
      [] resp = "index_error" -> <<"DOWNLOAD", "SAVED", "ERROR_download">>
      [] OTHER -> <<"DOWNLOAD", "ERROR_download">>

----------------------------------------------------------------------------
(* send_email_if_new.                                                      *)

\* What os.environ.get gives for a variable: None when it is unset, "" when it
\* is set to nothing, a value.
None == "<None>"
EnvValues == {None, "", "set"}

falsy(v) == v \in {None, ""}

\* os.environ.get("ALERT_EMAIL_TO", gmail_user)
alert_to(env) == IF env.ALERT_EMAIL_TO = None THEN env.GMAIL_USER ELSE env.ALERT_EMAIL_TO

\* email_gate with the test for an empty new_downloads lost.
email_gate_no_empty_check(new, env) ==
    IF falsy(env.GMAIL_USER) \/ falsy(env.GMAIL_APP_PASSWORD) \/ falsy(alert_to(env))
    THEN "missing"
    ELSE "connect"

\* "not_needed": nothing new; "missing": a value is missing; "connect": the
\* SMTP connection is attempted.
email_gate(new, env) ==
    IF new = <<>> THEN "not_needed"
    ELSE IF falsy(env.GMAIL_USER) \/ falsy(env.GMAIL_APP_PASSWORD) \/ falsy(alert_to(env))
         THEN "missing"
    ELSE "connect"

NoEnv == [GMAIL_USER |-> None, GMAIL_APP_PASSWORD |-> None, ALERT_EMAIL_TO |-> None]

----------------------------------------------------------------------------
(* The process.                                                            *)

NoCall == [url |-> U1, source |-> "", decision |-> "none", resp |-> "none"]
FreshFlags == [loaded |-> "none", saved |-> "none", clean |-> TRUE, failed |-> {}]
NoHist == [seen |-> {}, saved |-> "none", clean |-> FALSE, done |-> FALSE, failed |-> {}]

Perms(S) == {q \in [1..Cardinality(S) -> S] : \A i, j \in 1..Cardinality(S) : q[i] = q[j] => i = j}

\* A first run on an empty guidelines/ directory (line 16 creates it).
Init ==
    /\ pc = "init_logs"
    /\ src = 1
    /\ seeds = <<>>
    /\ all_links = {}
    /\ links = <<>>
    /\ seen_urls = {}
    /\ new_downloads = <<>>
    /\ debug_log = <<>>
    /\ pdf_index = NoIndex
    /\ seen_file = NoSeenFile
    /\ files = {}
    /\ dirs = {BASE_DIR}
    /\ net_gets = {}
    /\ call = NoCall
    /\ smtp = "idle"
    /\ environ = NoEnv
    /\ exit_status = "running"
    /\ run = 1
    /\ faults = 0
    /\ world \in Worlds
    /\ flags = FreshFlags
    /\ hist = NoHist

\* The scraper after the current one, or save_seen_urls after the last.
Advance ==
    IF src = Len(Scrapers)
    THEN pc' = "save_seen_urls" /\ src' = src
    ELSE pc' = "update" /\ src' = src + 1

init_logs ==
    /\ pc = "init_logs"
    /\ debug_log' = <<>>
    /\ pdf_index' = init_index(pdf_index)
    /\ pc' = "load_seen_urls"
    /\ UNCHANGED <<src, seeds, all_links, links, seen_urls, new_downloads, seen_file,
                   files, dirs, net_gets, call, smtp, environ, exit_status, run,
                   faults, world, flags, hist>>

load_seen_urls ==
    /\ pc = "load_seen_urls"
    /\ \E readable \in BOOLEAN :
        /\ ~readable => (seen_file.state = "valid" /\ faults < MaxFaults)
        /\ seen_urls' = load_seen(seen_file, readable)
        /\ faults' = IF readable THEN faults ELSE faults + 1
        /\ LET how == IF seen_file.state = "absent" THEN "fresh"
                      ELSE IF seen_file.state = "valid" /\ readable THEN "ok"
                      ELSE "failed"
           IN  /\ flags' = [flags EXCEPT !.loaded = how]
               /\ debug_log' = log(debug_log,
                      <<CASE how = "fresh" -> "INFO_fresh"
                          [] how = "ok" -> "INFO_loaded"
                          [] OTHER -> "WARN_load">>)
    /\ pc' = "update"
    /\ UNCHANGED <<src, seeds, all_links, links, new_downloads, pdf_index, seen_file,
                   files, dirs, net_gets, call, smtp, environ, exit_status, run,
                   world, hist>>

\* update_ada, update_who, update_idf, update_mohfw up to their seed loop.
enter_scraper ==
    /\ pc = "update"
    /\ Scrapers[src] \in HtmlScrapers
    /\ debug_log' = log(debug_log, <<"HEADER_source">>)
    /\ dirs' = ensure_dir(dirs, Scrapers[src])
    /\ seeds' = seed_urls(Scrapers[src])
    /\ all_links' = {}
    /\ pc' = "seeds"
    /\ UNCHANGED <<src, links, seen_urls, new_downloads, pdf_index, seen_file, files,
                   net_gets, call, smtp, environ, exit_status, run, faults, world,
                   flags, hist>>

\* update_nice up to its loop over the guidance pages.
enter_nice ==
    /\ pc = "update"
    /\ Scrapers[src] = "NICE"
    /\ dirs' = ensure_dir(dirs, "NICE")
    /\ \E outcome \in {"ok", "status", "error"} :
        /\ outcome # "ok" => faults < MaxFaults
        /\ faults' = IF outcome = "ok" THEN faults ELSE faults + 1
        /\ IF outcome = "ok"
           THEN LET guidance_links == {a.page : a \in {b \in NiceSearch(world) :
                                                        b.guidance /\ b.text_diabet}}
                IN  /\ seeds' \in Perms(guidance_links)
                    /\ all_links' = {}
                    /\ pc' = "seeds"
                    /\ src' = src
                    /\ flags' = flags
                    /\ debug_log' = log(debug_log, <<"HEADER_source">>
                                        \o get_soup_log(outcome) \o <<"INFO_guidance">>)
           ELSE /\ Advance
                /\ flags' = [flags EXCEPT !.clean = FALSE]
                /\ debug_log' = log(debug_log, <<"HEADER_source">> \o get_soup_log(outcome))
                /\ UNCHANGED <<seeds, all_links>>
    /\ UNCHANGED <<links, seen_urls, new_downloads, pdf_index, seen_file, files,
                   net_gets, call, smtp, environ, exit_status, run, world, hist>>

\* One turn of a scraper's loop over its pages: get_soup, find_pdf_links.
fetch_seed ==
    /\ pc = "seeds"
    /\ seeds # <<>>
    /\ \E outcome \in {"ok", "status", "error"} :
        LET page == Page(world, Head(seeds))
            require == require_diabetes_word(Scrapers[src])
        IN  /\ outcome # "ok" => faults < MaxFaults
            /\ faults' = IF outcome = "ok" THEN faults ELSE faults + 1
            /\ IF outcome = "ok" /\ find_pdf_links_raises(page, require)
               THEN /\ pc' = "crashed"
                    /\ exit_status' = "1"
                    /\ flags' = [flags EXCEPT !.clean = FALSE]
                    /\ debug_log' = log(debug_log, get_soup_log(outcome))
                    /\ UNCHANGED <<seeds, all_links>>
               ELSE /\ pc' = pc
                    /\ exit_status' = exit_status
                    /\ seeds' = Tail(seeds)
                    /\ IF outcome = "ok"
                       THEN /\ all_links' = all_links \cup find_pdf_links(page, require)
                            /\ flags' = flags
                            /\ debug_log' = log(debug_log, get_soup_log(outcome) \o <<"INFO_found">>)
                       ELSE /\ all_links' = all_links
                            /\ flags' = [flags EXCEPT !.clean = FALSE]
                            /\ debug_log' = log(debug_log, get_soup_log(outcome))
    /\ UNCHANGED <<src, links, seen_urls, new_downloads, pdf_index, seen_file, files,
                   dirs, net_gets, call, smtp, environ, run, world, hist>>

\* for link in sorted(all_links)
sort_links ==
    /\ pc = "seeds"
    /\ seeds = <<>>
    /\ links' = sorted(all_links)
    /\ pc' = "download"
    /\ UNCHANGED <<src, seeds, all_links, seen_urls, new_downloads, debug_log, pdf_index,
                   seen_file, files, dirs, net_gets, call, smtp, environ, exit_status,
                   run, faults, world, flags, hist>>

\* download_file(link, folder, source) for the next link.
download_file ==
    /\ pc = "download"
    /\ links # <<>>
    /\ LET url == Head(links)
           source == Scrapers[src]
           d == Decide(url, source, seen_urls, files)
       IN  \E resp \in FetchResponses \cup {"none"} :
            /\ (resp = "none") <=> (d # "fetch")
            /\ (d = "fetch" /\ url \in Dead(world)) => resp = "status"
            /\ (resp \notin {"none", "200"} /\ url \notin Dead(world)) => faults < MaxFaults
            /\ faults' = IF resp \in {"none", "200"} \/ url \in Dead(world)
                         THEN faults ELSE faults + 1
            /\ dirs' = ensure_dir(dirs, source)
            /\ seen_urls' = seen_after(seen_urls, url, d, resp)
            /\ new_downloads' = new_after(new_downloads, source, url, d, resp)
            /\ pdf_index' = index_after(pdf_index, source, url, run, d, resp)
            /\ files' = files_after(files, source, url, d, resp)
            /\ net_gets' = gets_after(net_gets, source, url, d)
            /\ debug_log' = log(debug_log, download_log(d, resp))
            /\ call' = [url |-> url, source |-> source, decision |-> d, resp |-> resp]
            /\ flags' = [flags EXCEPT
                           !.clean = @ /\ (d = "fetch" => Marked(resp)),
                           !.failed = IF resp \in {"status", "error"}
                                      THEN @ \cup {[source |-> source, url |-> url]}
                                      ELSE @]
    /\ links' = Tail(links)
    /\ UNCHANGED <<pc, src, seeds, all_links, seen_file, smtp, environ, exit_status,
                   run, world, hist>>

\* The scraper's loop over its links is over: it returns.
return_from_scraper ==
    /\ pc = "download"
    /\ links = <<>>
    /\ Advance
    /\ UNCHANGED <<seeds, all_links, links, seen_urls, new_downloads, debug_log,
                   pdf_index, seen_file, files, dirs, net_gets, call, smtp, environ,
                   exit_status, run, faults, world, flags, hist>>

PubmedFile(n) == [folder |-> "PubMed", name |-> <<"pubmed_", ToString(n), ".json">>,
                  from |-> [dir |-> "esummary.fcgi", last |-> <<>>, query |-> "",
                            diabet |-> TRUE, malformed |-> FALSE],
                  complete |-> TRUE]

update_pubmed ==
    /\ pc = "update"
    /\ Scrapers[src] = "PubMed"
    /\ dirs' = ensure_dir(dirs, "PubMed")
    /\ \E outcome \in {"saved", "no_ids", "error"} :
        /\ outcome = "error" => faults < MaxFaults
        /\ faults' = IF outcome = "error" THEN faults + 1 ELSE faults
        /\ files' = IF outcome = "saved" THEN files \cup {PubmedFile(run)} ELSE files
        /\ debug_log' = log(debug_log,
              CASE outcome = "saved"  -> <<"HEADER_source", "PUBMED_search", "PUBMED_found", "PUBMED_saved">>
                [] outcome = "no_ids" -> <<"HEADER_source", "PUBMED_search", "PUBMED_found">>
                [] OTHER              -> <<"HEADER_source", "PUBMED_search", "PUBMED_error">>)
    /\ Advance
    /\ UNCHANGED <<seeds, all_links, links, seen_urls, new_downloads, pdf_index, seen_file,
                   net_gets, call, smtp, environ, exit_status, run, world, flags, hist>>

\* RSS_FEEDS is empty: update_rss logs and returns.
update_rss ==
    /\ pc = "update"
    /\ Scrapers[src] = "RSS"
    /\ RSS_FEEDS = <<>>
    /\ debug_log' = log(debug_log, <<"HEADER_source", "INFO_no_feeds">>)
    /\ Advance
    /\ UNCHANGED <<seeds, all_links, links, seen_urls, new_downloads, pdf_index, seen_file,
                   files, dirs, net_gets, call, smtp, environ, exit_status, run, faults,
                   world, flags, hist>>

save_seen_urls ==
    /\ pc = "save_seen_urls"
    /\ \E result \in {"ok", "open_error", "dump_error"} :
        /\ result # "ok" => faults < MaxFaults
        /\ faults' = IF result = "ok" THEN faults ELSE faults + 1
        /\ seen_file' = save_seen(seen_file, seen_urls, result)
        /\ flags' = [flags EXCEPT !.saved = IF result = "ok" THEN "ok" ELSE "failed"]
        /\ debug_log' = log(debug_log, <<IF result = "ok" THEN "INFO_saved" ELSE "WARN_save">>)
    /\ pc' = "send_email_if_new"
    /\ UNCHANGED <<src, seeds, all_links, links, seen_urls, new_downloads, pdf_index,
                   files, dirs, net_gets, call, smtp, environ, exit_status, run, world,
                   hist>>

\* send_email_if_new, then the end of __main__.
send_email_if_new ==
    /\ pc = "send_email_if_new"
    /\ \E env \in [GMAIL_USER : EnvValues, GMAIL_APP_PASSWORD : {None, "set"},
                   ALERT_EMAIL_TO : EnvValues] :
        /\ environ' = env
        /\ LET gate == email_gate(new_downloads, env)
           IN  \E result \in {"not_needed", "missing", "sent", "failed"} :
                /\ gate # "connect" => result = gate
                /\ gate = "connect" => result \in {"sent", "failed"}
                /\ result = "failed" => faults < MaxFaults
                /\ faults' = IF result = "failed" THEN faults + 1 ELSE faults
                /\ smtp' = result
                /\ debug_log' = log(debug_log,
                      CASE result = "not_needed" -> <<"EMAIL_no_new">>
                        [] result = "missing"    -> <<"EMAIL_missing">>
                        [] result = "sent"       -> <<"EMAIL_connecting", "EMAIL_sent">>
                        [] OTHER                 -> <<"EMAIL_connecting", "EMAIL_error">>)
    /\ pc' = "done"
    /\ exit_status' = "0"
    /\ UNCHANGED <<src, seeds, all_links, links, seen_urls, new_downloads, pdf_index,
                   seen_file, files, dirs, net_gets, call, run, world, flags, hist>>

\* The script is started again: a new process, its globals as lines 33-34 set
\* them, on the files the previous one left.
start_process ==
    /\ pc \in {"done", "crashed"}
    /\ run < MaxRuns
    /\ run' = run + 1
    /\ pc' = "init_logs"
    /\ src' = 1
    /\ seeds' = <<>>
    /\ all_links' = {}
    /\ links' = <<>>
    /\ seen_urls' = {}
    /\ new_downloads' = <<>>
    /\ net_gets' = {}
    /\ call' = NoCall
    /\ smtp' = "idle"
    /\ environ' = NoEnv
    /\ exit_status' = "running"
    /\ flags' = FreshFlags
    /\ hist' = [seen |-> seen_urls, saved |-> flags.saved, clean |-> flags.clean,
                done |-> pc = "done", failed |-> flags.failed]
    /\ UNCHANGED <<debug_log, pdf_index, seen_file, files, dirs, faults, world>>

Next ==
    \/ init_logs
    \/ load_seen_urls
    \/ enter_scraper
    \/ enter_nice
    \/ fetch_seed
    \/ sort_links
    \/ download_file
    \/ return_from_scraper
    \/ update_pubmed
    \/ update_rss
    \/ save_seen_urls
    \/ send_email_if_new
    \/ start_process

Spec == Init /\ [][Next]_vars

----------------------------------------------------------------------------
(* Properties.                                                             *)

IsPrefix(p, q) == Len(p) <= Len(q) /\ SubSeq(q, 1, Len(p)) = p

\* download_file is about to be called.
Calling == pc = "download" /\ links # <<>>
Url == Head(links)
Source == Scrapers[src]

\* The index rows appended by this process, as (source, filename, url).
RunRows ==
    LET mine == SelectSeq(pdf_index.rows,
                          LAMBDA r : "download_date" \in DOMAIN r /\ r.download_date = run)
    IN  [i \in 1..Len(mine) |-> [source |-> mine[i].source, filename |-> mine[i].filename,
                                 url |-> mine[i].url]]

\* C1: a call of download_file on a URL that is in seen_urls only appends the
\* "[SKIP] Already known URL" line to the log: no request, no file or
\* directory created or written, seen_urls, the index, the seen-state file
\* and new_downloads unchanged.
C1_SeenUrlIsSkipped ==
    [][(Calling /\ Url \in seen_urls) =>
          /\ net_gets' = net_gets
          /\ files' = files
          /\ dirs' = dirs
          /\ seen_urls' = seen_urls
          /\ pdf_index' = pdf_index
          /\ seen_file' = seen_file
          /\ new_downloads' = new_downloads
          /\ debug_log' = Append(debug_log, "SKIP_known")]_vars

\* C1 witness: a call skipped a known URL whose file is not in the caller's folder.
C1_Witness ==
    /\ call.decision = "skip"
    /\ call.url \in seen_urls
    /\ ~exists(files, call.source, safe_filename(call.url))

\* C2 as claimed: the seen set at the end of a run contains the seen set at
\* the end of the run before it, whatever happened to the seen-state file.
C2_NeverShrinksAcrossRuns ==
    (run >= 2 /\ hist.done /\ pc = "done") => hist.seen \subseteq seen_urls

\* C2 amended: within a run seen_urls only grows; and when the run before saved
\* the seen-state and this run loaded it, seen_urls contains the seen set the
\* run before ended with.
C2_GrowsWhenSavedAndLoaded ==
    /\ [][pc \notin {"done", "crashed"} => seen_urls \subseteq seen_urls']_vars
    /\ []((run >= 2 /\ hist.done /\ hist.saved = "ok" /\ flags.loaded = "ok")
             => hist.seen \subseteq seen_urls)

\* C2 witness: a second run ended after loading what the first one saved.
C2_Witness ==
    /\ run >= 2 /\ hist.done /\ hist.saved = "ok" /\ flags.loaded = "ok"
    /\ pc = "done"
    /\ hist.seen # {}

C4_AdoptionWithoutDownload ==
    [][(Calling /\ Url \notin seen_urls /\ exists(files, Source, safe_filename(Url))) =>
          /\ seen_urls' = seen_urls \cup {Url}
          /\ net_gets' = net_gets
          /\ files' = files
          /\ pdf_index' = pdf_index
          /\ new_downloads' = new_downloads
          /\ debug_log' = Append(debug_log, "SKIP_untracked")]_vars

\* C4 witness: a call adopted an existing file.
C4_Witness ==
    /\ call.decision = "adopt"
    /\ call.url \in seen_urls
    /\ exists(files, call.source, safe_filename(call.url))

\* The step is a download_file call whose binary fetch failed.
FetchFailed == Calling /\ call' # call /\ call'.resp \in {"status", "error"}

\* C5 as claimed, its last part: a URL whose fetch failed in the run before
\* is fetched again when this run hands it to download_file.
C5_RetriedNextRun ==
    [][(Calling /\ [source |-> Source, url |-> Url] \in hist.failed)
          => call'.decision = "fetch"]_vars

\* C5 amended: a failed fetch leaves seen_urls, the index, the seen-state file,
\* new_downloads and the files as they were and only adds log lines; the URL
\* is still not seen and a call for it in that state would fetch again.
C5_FailedFetchChangesNothing ==
    [][FetchFailed =>
          /\ seen_urls' = seen_urls
          /\ pdf_index' = pdf_index
          /\ seen_file' = seen_file
          /\ new_downloads' = new_downloads
          /\ files' = files
          /\ IsPrefix(debug_log, debug_log')
          /\ Url \notin seen_urls'
          /\ Decide(Url, Source, seen_urls', files') = "fetch"]_vars

\* C5 witness: a binary fetch failed.
C5_Witness ==
    /\ call.decision = "fetch"
    /\ call.resp \in {"status", "error"}
    /\ call.url \notin seen_urls

\* C6: no failure inside a scraper ends the process: it never exits with an
\* uncaught exception.
C6_FailuresContained == pc # "crashed" /\ exit_status # "1"

C8_OneRowPerRecord ==
    /\ RunRows = new_downloads
    /\ \A i \in 1..Len(new_downloads) : new_downloads[i].url \in seen_urls

\* C9: every step leaves the rows of the index in place (the index before is
\* a prefix of the index after, and it is never removed); init_logs empties
\* the log and writes the header only when the index does not exist.
C9_IndexAppendOnly ==
    [][/\ IsPrefix(pdf_index.rows, pdf_index'.rows)
       /\ pdf_index.exists => pdf_index'.exists
       /\ pc = "init_logs" =>
            /\ debug_log' = <<>>
            /\ pdf_index' = IF pdf_index.exists THEN pdf_index
                            ELSE [exists |-> TRUE, rows |-> <<HEADER>>]
       /\ pc # "init_logs" => IsPrefix(debug_log, debug_log')
       /\ pdf_index'.exists =>
            /\ pdf_index'.rows[1] = HEADER
            /\ \A i \in 2..Len(pdf_index'.rows) : pdf_index'.rows[i] # HEADER]_vars

\* C9 witness: a later run's init_logs has run on an index that holds rows.
C9_Witness ==
    /\ run >= 2
    /\ pc = "load_seen_urls"
    /\ debug_log = <<>>
    /\ Len(pdf_index.rows) >= 2

\* The call before this one, in the same scraper, was on another URL with the
\* same derived filename, not seen when it was handed over.
Collision ==
    /\ Calling
    /\ Url \notin seen_urls
    /\ call.source = Source
    /\ call.decision \in {"adopt", "fetch"}
    /\ call.url # Url
    /\ safe_filename(call.url) = safe_filename(Url)

\* C10 as claimed: of two unseen URLs of a folder with the same filename the
\* second is marked seen without a request.
C10_SecondNeverFetched ==
    [][Collision => (net_gets' = net_gets /\ seen_urls' = seen_urls \cup {Url})]_vars

\* C10 amended: no step overwrites or removes a file; of two unseen URLs of a
\* folder with the same filename, once a file of that name exists the other
\* URL is marked seen without request, index row or download record; and the
\* index never holds two rows for one (source, filename).
C10_CollisionAdoptsOnceSaved ==
    /\ [][/\ files \subseteq files'
          /\ (Collision /\ exists(files, Source, safe_filename(Url))) =>
                /\ net_gets' = net_gets
                /\ seen_urls' = seen_urls \cup {Url}
                /\ pdf_index' = pdf_index
                /\ new_downloads' = new_downloads]_vars
    /\ [](\A i, j \in 2..Len(pdf_index.rows) :
             (/\ pdf_index.rows[i].source = pdf_index.rows[j].source
              /\ pdf_index.rows[i].filename = pdf_index.rows[j].filename) => i = j)

\* C10 witness: the second of two colliding URLs was adopted right after the
\* first was saved.
C10_Witness ==
    /\ call.decision = "adopt"
    /\ call.url = U2
    /\ call.source = "ADA"
    /\ \E f \in files : f.folder = "ADA" /\ f.name = safe_filename(U2) /\ f.from = U1
    /\ Len(new_downloads) = 1

====
